---------------------------- MODULE Spec2Model ----------------------------
(***************************************************************************)
(* Command validation engine of src/smartfix/config/command_validator.py.  *)
(*                                                                         *)
(* Command strings are TLA+ strings; a character is a string of length 1.  *)
(* The regular expressions and the shell lexer of the source are modelled  *)
(* character by character.  validate_command is modelled as the state      *)
(* machine Start -> PreChecked -> Split -> (Parsed -> PolicyApproved)* ->  *)
(* Approved | Rejected.  Around it are its callers: the trust gate         *)
(* Config._validate_command of src/config.py, and a caller that makes      *)
(* several calls one after the other.                                      *)
(***************************************************************************)
EXTENDS Integers, Sequences, FiniteSets, TLC

VARIABLES command,     \* the raw command string handed to validate_command
          pc,          \* position inside validate_command
          normalized,  \* the command after line-continuation folding
          segments,    \* the chain: sequence of <<segment, operator>>
          idx,         \* index of the segment the loop is at
          executable,  \* parse result of the current segment
          args,        \* parse result of the current segment
          error,       \* the raised CommandValidationError (kind, item)
          message,     \* str() of the raised CommandValidationError
          var_name,    \* the label handed to validate_command
          source,      \* the source handed to Config._validate_command
          given,       \* its Optional[str] command: << >> is None, <<c>> is c
          gate,        \* position inside Config._validate_command
          config_error,\* str() of the raised ConfigurationError
          calls,       \* validate_command calls made so far
          history,     \* first finished call on each command: its outcome
          environ,     \* os.environ: << >> is an unset variable, <<v>> is v
          config_instance, \* _config_instance: << >> is None, <<c>> is c
          built,       \* every Config constructed so far
          last_returned,   \* what get_config returned last since the last
                       \* reset_config: << >> when it has not returned
          last_call,   \* how the last call on the singleton ended
          ops          \* calls on the singleton and environment changes so far

vars == <<command, pc, normalized, segments, idx, executable, args, error,
          message, var_name, source, given, gate, config_error, calls, history,
          environ, config_instance, built, last_returned, last_call, ops>>

\* the module-level singleton and the environment it is built from
singletonVars == <<environ, config_instance, built, last_returned, last_call, ops>>

\* what validate_command does not touch: its label and its caller's state
callerVars == <<var_name, source, given, gate, config_error, calls, history,
                singletonVars>>

(***************************************************************************)
(* Rule tables                                                             *)
(***************************************************************************)
ALLOWED_COMMANDS ==
    { "dotnet", "msbuild", "nuget",
      "nunit-console", "nunit3-console", "xunit.console",
      "vstest.console", "mstest",
      "csharpier",
      "mvn", "gradle", "ant", "sbt", "junit", "testng",
      "./gradlew", "./mvnw", "gradlew", "mvnw",
      "google-java-format", "checkstyle",
      "pip", "pip3", "python", "python3",
      "pytest", "nose2", "unittest", "coverage",
      "poetry", "pipenv", "uv", "tox", "virtualenv",
      "black", "autopep8", "yapf", "isort", "ruff",
      "flake8", "pylint",
      "npm", "npx", "yarn", "node", "pnpm", "bun",
      "jest", "mocha", "jasmine", "karma", "ava", "vitest", "nyc",
      "prettier", "eslint", "standard",
      "composer", "php", "phpunit", "pest", "codeception",
      "php-cs-fixer", "phpcbf",
      "clang-format",
      "make", "cmake", "ninja", "bazel", "ctest",
      "echo", "sh", "bash", "grep", "sed", "awk", "cat", "tee" }

ALLOWED_OPERATORS == <<"&&", "||", ";", "|">>

MAX_COMMAND_LENGTH == 10000

MAX_SEGMENTS == 50

\* The backquote character.  A string literal of this language cannot hold
\* it, so it is written as the circumflex, which no rule of the source
\* names and which is an ordinary character to every regular expression and
\* to the shell lexer, as the backquote is.
Backquote == "^"

\* _BLOCKED_PATTERN_STRINGS, in table order; the matcher of entry i is
\* BlockedPatternMatches(i, s) below.
BLOCKED_PATTERN_STRINGS ==
    << "\\$\\(", Backquote, "\\$\\{", "\\beval\\s", "\\bexec\\s", "\\brm\\s+-rf",
       "\\bcurl.*\\|", "\\bwget.*\\|", ">\\s*/dev/", ";\\s*rm\\b",
       "\\|\\s*sh\\b", "\\|\\s*bash\\b",
       "(?<!&)(?<!>)&(?!&)(?![0-9])", "<<<?", "<\\(", ">\\(" >>

DANGEROUS_INTERPRETER_FLAGS ==
    [ e \in {"node", "python", "python3", "ruby", "perl"} |->
        CASE e = "node"    -> <<"-e", "--eval">>
          [] e = "python"  -> <<"-c">>
          [] e = "python3" -> <<"-c">>
          [] e = "ruby"    -> <<"-e">>
          [] e = "perl"    -> <<"-e">> ]

ALLOWED_PYTHON_MODULES ==
    { "pytest", "unittest", "coverage", "pip", "venv", "virtualenv",
      "black", "autopep8", "yapf", "isort", "ruff", "flake8", "pylint",
      "mypy", "tox", "nose2", "poetry", "pipenv" }

(***************************************************************************)
(* Characters and strings                                                  *)
(***************************************************************************)
At(s, i) == SubSeq(s, i, i)

Chars(s) == { At(s, i) : i \in 1..Len(s) }

\* \s of the re module and the characters str.strip / str.split remove
\* (those of them a TLA+ string literal can hold)
Whitespace == {" ", "\t", "\n", "\r", "\f"}

\* shlex.whitespace
ShlexWhitespace == {" ", "\t", "\r", "\n"}

Digits == Chars("0123456789")

\* \w of the re module
WordChars ==
    Chars("abcdefghijklmnopqrstuvwxyzABCDEFGHIJKLMNOPQRSTUVWXYZ_") \cup Digits

IsSpace(s, i) == At(s, i) \in Whitespace

\* s[i:i+len(w)] == w
StartsAt(s, i, w) ==
    /\ i >= 1
    /\ i + Len(w) - 1 <= Len(s)
    /\ SubSeq(s, i, i + Len(w) - 1) = w

StartsWith(s, w) == StartsAt(s, 1, w)

EndsWith(s, w) == Len(w) <= Len(s) /\ StartsAt(s, Len(s) - Len(w) + 1, w)

Contains(s, w) == \E i \in 1..Len(s) : StartsAt(s, i, w)

\* \b at the left edge of a word that starts at position i
BoundaryBefore(s, i) == i = 1 \/ At(s, i - 1) \notin WordChars

\* \b right after a word that ends at position i
BoundaryAfter(s, i) == i = Len(s) \/ At(s, i + 1) \notin WordChars

\* every character of s[i..j] is whitespace (true of an empty range)
AllSpace(s, i, j) == \A k \in i..j : IsSpace(s, k)

MinOf(S) == CHOOSE x \in S : \A y \in S : x <= y

MaxOf(S) == CHOOSE x \in S : \A y \in S : x >= y

\* the end of the maximal run of characters of class C that starts at i
\* (i - 1 when the run is empty)
RunEnd(s, i, C) ==
    LET stops == { k \in i..Len(s) : At(s, k) \notin C }
    IN  IF stops = {} THEN Len(s) ELSE MinOf(stops) - 1

\* not command.strip()
IsBlank(s) == \A i \in 1..Len(s) : IsSpace(s, i)

\* str.strip()
Strip(s) ==
    LET keep == { i \in 1..Len(s) : ~IsSpace(s, i) }
    IN  IF keep = {} THEN "" ELSE SubSeq(s, MinOf(keep), MaxOf(keep))

\* str.split(): the maximal runs of non-whitespace characters, in order
RECURSIVE SplitWhitespace(_)
SplitWhitespace(s) ==
    LET keep == { i \in 1..Len(s) : ~IsSpace(s, i) }
    IN  IF keep = {} THEN << >>
        ELSE LET b == MinOf(keep)
                 e == RunEnd(s, b, Chars(s) \ Whitespace)
             IN  <<SubSeq(s, b, e)>> \o SplitWhitespace(SubSeq(s, e + 1, Len(s)))

(***************************************************************************)
(* Global pre-validation                                                   *)
(***************************************************************************)
\* re.findall(r'(?<!\\)\n|(?<!\\)\r', command) is non-empty
\* the newline scan looking for line feeds only
HasUnescapedNewline_LineFeedOnly(s) ==
    \E i \in 1..Len(s) :
        /\ At(s, i) = "\n"
        /\ (i = 1 \/ At(s, i - 1) # "\\")

HasUnescapedNewline(s) ==
    \E i \in 1..Len(s) :
        /\ At(s, i) \in {"\n", "\r"}
        /\ (i = 1 \/ At(s, i - 1) # "\\")

\* one match of \\\s*\n\s* starts at the backslash at position i: the
\* whitespace run after it holds a line feed; the match then covers the run
ContinuationAt(s, i) ==
    /\ At(s, i) = "\\"
    /\ \E k \in (i + 1)..RunEnd(s, i + 1, Whitespace) : At(s, k) = "\n"

\* the folding with each continuation dropped, no blank put in its place
RECURSIVE FoldContinuations_NoBlank(_)
FoldContinuations_NoBlank(s) ==
    LET starts == { i \in 1..Len(s) : ContinuationAt(s, i) }
    IN  IF starts = {} THEN s
        ELSE LET b == MinOf(starts)
                 e == RunEnd(s, b + 1, Whitespace)
             IN  SubSeq(s, 1, b - 1)
                   \o FoldContinuations_NoBlank(SubSeq(s, e + 1, Len(s)))

\* re.sub(r'\\\s*\n\s*', ' ', command)
RECURSIVE FoldContinuations(_)
FoldContinuations(s) ==
    LET starts == { i \in 1..Len(s) : ContinuationAt(s, i) }
    IN  IF starts = {} THEN s
        ELSE LET b == MinOf(starts)
                 e == RunEnd(s, b + 1, Whitespace)
             IN  SubSeq(s, 1, b - 1) \o " "
                   \o FoldContinuations(SubSeq(s, e + 1, Len(s)))

\* word, then \s* (min = 0) or \s+ (min = 1), then w
GapThen(s, i, min, w) ==
    \E j \in (i + min)..(Len(s) + 1) : StartsAt(s, j, w) /\ AllSpace(s, i, j - 1)

\* BLOCKED_PATTERNS[p].search(s)
BlockedPatternMatches(p, s) ==
    CASE p = 1  -> Contains(s, "$(")
      [] p = 2  -> Contains(s, Backquote)
      [] p = 3  -> Contains(s, "${")
      [] p = 4  -> \E i \in 1..Len(s) :
                      /\ StartsAt(s, i, "eval") /\ BoundaryBefore(s, i)
                      /\ i + 4 <= Len(s) /\ IsSpace(s, i + 4)
      [] p = 5  -> \E i \in 1..Len(s) :
                      /\ StartsAt(s, i, "exec") /\ BoundaryBefore(s, i)
                      /\ i + 4 <= Len(s) /\ IsSpace(s, i + 4)
      [] p = 6  -> \E i \in 1..Len(s) :
                      /\ StartsAt(s, i, "rm") /\ BoundaryBefore(s, i)
                      /\ GapThen(s, i + 2, 1, "-rf")
      [] p = 7  -> \E i \in 1..Len(s) :
                      /\ StartsAt(s, i, "curl") /\ BoundaryBefore(s, i)
                      /\ \E j \in (i + 4)..Len(s) :
                            /\ At(s, j) = "|"
                            /\ \A k \in (i + 4)..(j - 1) : At(s, k) # "\n"
      [] p = 8  -> \E i \in 1..Len(s) :
                      /\ StartsAt(s, i, "wget") /\ BoundaryBefore(s, i)
                      /\ \E j \in (i + 4)..Len(s) :
                            /\ At(s, j) = "|"
                            /\ \A k \in (i + 4)..(j - 1) : At(s, k) # "\n"
      [] p = 9  -> \E i \in 1..Len(s) :
                      At(s, i) = ">" /\ GapThen(s, i + 1, 0, "/dev/")
      [] p = 10 -> \E i \in 1..Len(s) :
                      /\ At(s, i) = ";"
                      /\ \E j \in (i + 1)..Len(s) :
                            /\ StartsAt(s, j, "rm") /\ BoundaryAfter(s, j + 1)
                            /\ AllSpace(s, i + 1, j - 1)
      [] p = 11 -> \E i \in 1..Len(s) :
                      /\ At(s, i) = "|"
                      /\ \E j \in (i + 1)..Len(s) :
                            /\ StartsAt(s, j, "sh") /\ BoundaryAfter(s, j + 1)
                            /\ AllSpace(s, i + 1, j - 1)
      [] p = 12 -> \E i \in 1..Len(s) :
                      /\ At(s, i) = "|"
                      /\ \E j \in (i + 1)..Len(s) :
                            /\ StartsAt(s, j, "bash") /\ BoundaryAfter(s, j + 3)
                            /\ AllSpace(s, i + 1, j - 1)
      [] p = 13 -> \E i \in 1..Len(s) :
                      /\ At(s, i) = "&"
                      /\ (i = 1 \/ At(s, i - 1) \notin {"&", ">"})
                      /\ (i = Len(s) \/ At(s, i + 1) \notin ({"&"} \cup Digits))
      [] p = 14 -> Contains(s, "<<")
      [] p = 15 -> Contains(s, "<(")
      [] p = 16 -> Contains(s, ">(")

\* find_dangerous_pattern: the index of the first matching pattern, 0 for None
find_dangerous_pattern(s) ==
    LET hits == { p \in 1..Len(BLOCKED_PATTERN_STRINGS) : BlockedPatternMatches(p, s) }
    IN  IF hits = {} THEN 0 ELSE MinOf(hits)

(***************************************************************************)
(* Chain splitter                                                          *)
(***************************************************************************)
Range(f) == { f[i] : i \in DOMAIN f }

\* the alternative of (&&|\|\||;|\|) that matches at position i, "" if none:
\* the alternatives are tried in the order of ALLOWED_OPERATORS
OperatorAt(s, i) ==
    LET hits == { k \in DOMAIN ALLOWED_OPERATORS : StartsAt(s, i, ALLOWED_OPERATORS[k]) }
    IN  IF hits = {} THEN "" ELSE ALLOWED_OPERATORS[MinOf(hits)]

\* re.split(operator_pattern, command): chunk, operator, chunk, ..., chunk
RECURSIVE ReSplit(_)
ReSplit(s) ==
    LET hits == { i \in 1..Len(s) : OperatorAt(s, i) # "" }
    IN  IF hits = {} THEN <<s>>
        ELSE LET b  == MinOf(hits)
                 op == OperatorAt(s, b)
             IN  <<SubSeq(s, 1, b - 1), op>>
                   \o ReSplit(SubSeq(s, b + Len(op), Len(s)))

\* the while loop of split_command_chain as its docstring has it: the last
\* pair of the chain never carries an operator
RECURSIVE GroupPairs_LastBare(_, _)
GroupPairs_LastBare(parts, i) ==
    IF i > Len(parts) THEN << >>
    ELSE LET cmd      == Strip(parts[i])
             hasOp    == i + 1 <= Len(parts) /\ parts[i + 1] \in Range(ALLOWED_OPERATORS)
             more     == \E j \in (i + 2)..Len(parts) : Strip(parts[j]) # ""
             operator == IF hasOp /\ more THEN parts[i + 1] ELSE ""
             next     == IF hasOp THEN i + 2 ELSE i + 1
         IN  (IF cmd # "" THEN << <<cmd, operator>> >> ELSE << >>)
               \o GroupPairs_LastBare(parts, next)

\* the while loop of split_command_chain without its skip of empty segments
RECURSIVE GroupPairs_KeepEmpty(_, _)
GroupPairs_KeepEmpty(parts, i) ==
    IF i > Len(parts) THEN << >>
    ELSE LET cmd      == Strip(parts[i])
             hasOp    == i + 1 <= Len(parts) /\ parts[i + 1] \in Range(ALLOWED_OPERATORS)
             operator == IF hasOp THEN parts[i + 1] ELSE ""
             next     == IF hasOp THEN i + 2 ELSE i + 1
         IN  << <<cmd, operator>> >> \o GroupPairs_KeepEmpty(parts, next)

\* the while loop of split_command_chain, from index i of parts (1-based)
RECURSIVE GroupPairs(_, _)
GroupPairs(parts, i) ==
    IF i > Len(parts) THEN << >>
    ELSE LET cmd      == Strip(parts[i])
             hasOp    == i + 1 <= Len(parts) /\ parts[i + 1] \in Range(ALLOWED_OPERATORS)
             operator == IF hasOp THEN parts[i + 1] ELSE ""
             next     == IF hasOp THEN i + 2 ELSE i + 1
         IN  (IF cmd # "" THEN << <<cmd, operator>> >> ELSE << >>)
               \o GroupPairs(parts, next)

split_command_chain(s) == GroupPairs(ReSplit(s), 1)

(***************************************************************************)
(* Segment parser                                                          *)
(***************************************************************************)
\* [^\s&|;]: the characters a redirect target is made of
IsTargetChar(c) == c \notin (Whitespace \cup {"&", "|", ";"})

\* the end of the maximal run of target characters that starts at i
TargetEnd(s, i) ==
    LET stops == { k \in i..Len(s) : ~IsTargetChar(At(s, k)) }
    IN  IF stops = {} THEN Len(s) ELSE MinOf(stops) - 1

\* the start of the maximal run of digits that ends right before g
DigitsStart(s, g) ==
    LET stops == { k \in 1..(g - 1) : At(s, k) \notin Digits }
    IN  IF stops = {} THEN 1 ELSE MaxOf(stops) + 1

\* the end of the match of >\d*\s*[^\s&|;]+ whose '>' is at g, 0 if none:
\* digits, whitespace and a non-empty target; failing a target after the
\* whitespace, the digits alone serve as the target
RedirectClauseEnd(s, g) ==
    LET d == RunEnd(s, g + 1, Digits)
        w == RunEnd(s, d + 1, Whitespace)
        t == TargetEnd(s, w + 1)
    IN  IF At(s, g) # ">" THEN 0
        ELSE IF t > w THEN t
        ELSE IF d > g THEN d
        ELSE 0

\* re.sub(r'\d*>\d*\s*[^\s&|;]+', '', segment)
RECURSIVE StripRedirects(_)
StripRedirects(s) ==
    LET gs == { g \in 1..Len(s) : RedirectClauseEnd(s, g) # 0 }
    IN  IF gs = {} THEN s
        ELSE LET g == MinOf(gs)
             IN  SubSeq(s, 1, DigitsStart(s, g) - 1)
                   \o StripRedirects(SubSeq(s, RedirectClauseEnd(s, g) + 1, Len(s)))

ShlexQuotes == {"'", "\""}

\* shlex.split(s) in POSIX mode (whitespace_split, no comments): the lexer
\* of shlex.read_token from position i on.  state is the lexer's state
\* (" ", "a", a quote or the escape character), esc its escapedstate, token
\* the token being built, quoted whether a quote was seen in it, out the
\* tokens emitted so far.  ok is FALSE where shlex raises ValueError.
RECURSIVE ShlexFrom(_, _, _, _, _, _, _)
ShlexFrom(s, i, state, esc, token, quoted, out) ==
    LET eof    == i > Len(s)
        c      == IF eof THEN "" ELSE At(s, i)
        final  == [ok |-> TRUE,
                   parts |-> IF token # "" \/ quoted THEN Append(out, token) ELSE out]
        \* a whitespace character ends the token (or is skipped before one)
        break  == IF token # "" \/ quoted
                  THEN ShlexFrom(s, i + 1, " ", " ", "", FALSE, Append(out, token))
                  ELSE ShlexFrom(s, i + 1, " ", esc, token, quoted, out)
    IN  CASE state = " " ->
               IF eof THEN final
               ELSE IF c \in ShlexWhitespace THEN break
               ELSE IF c = "\\" THEN ShlexFrom(s, i + 1, c, "a", token, quoted, out)
               ELSE IF c \in ShlexQuotes THEN ShlexFrom(s, i + 1, c, esc, token, quoted, out)
               ELSE ShlexFrom(s, i + 1, "a", esc, c, quoted, out)
          [] state \in ShlexQuotes ->
               IF eof THEN [ok |-> FALSE, parts |-> << >>]
               ELSE IF c = state THEN ShlexFrom(s, i + 1, "a", esc, token, TRUE, out)
               ELSE IF c = "\\" /\ state = "\""
                    THEN ShlexFrom(s, i + 1, c, state, token, TRUE, out)
               ELSE ShlexFrom(s, i + 1, state, esc, token \o c, TRUE, out)
          [] state = "\\" ->
               IF eof THEN [ok |-> FALSE, parts |-> << >>]
               ELSE LET kept == IF esc \in ShlexQuotes /\ c # state /\ c # esc
                                THEN token \o state ELSE token
                    IN  ShlexFrom(s, i + 1, esc, esc, kept \o c, quoted, out)
          [] state = "a" ->
               IF eof THEN final
               ELSE IF c \in ShlexWhitespace THEN break
               ELSE IF c \in ShlexQuotes THEN ShlexFrom(s, i + 1, c, esc, token, quoted, out)
               ELSE IF c = "\\" THEN ShlexFrom(s, i + 1, c, "a", token, quoted, out)
               ELSE ShlexFrom(s, i + 1, "a", esc, token \o c, quoted, out)

ShlexSplit(s) == ShlexFrom(s, 1, " ", " ", "", FALSE, << >>)

\* the tokens of the segment with no fallback: none when shlex raises
Tokenize_FailOpen(s) ==
    LET lexed == ShlexSplit(s)
    IN  IF lexed.ok THEN lexed.parts ELSE << >>

\* the tokens of the segment: shlex.split, or str.split when shlex raises
Tokenize(s) ==
    LET lexed == ShlexSplit(s)
    IN  IF lexed.ok THEN lexed.parts ELSE SplitWhitespace(s)

parse_command_segment(segment) ==
    LET stripped == Strip(segment)
        parts    == Tokenize(Strip(StripRedirects(stripped)))
    IN  IF stripped = "" \/ parts = << >>
        THEN [executable |-> "", args |-> << >>]
        ELSE [executable |-> parts[1], args |-> Tail(parts)]

(***************************************************************************)
(* Segment policy checks                                                   *)
(***************************************************************************)
\* the shell policy without its -c test
validate_shell_command_NoDashC(exe, as) ==
    IF exe \notin {"sh", "bash"} THEN TRUE
    ELSE IF as = << >> THEN FALSE
    ELSE LET nonflag == { k \in DOMAIN as : ~StartsWith(as[k], "-") }
         IN  IF nonflag = {} THEN FALSE
             ELSE LET script_path == as[MinOf(nonflag)]
                  IN  script_path # "" /\ EndsWith(script_path, ".sh")

validate_shell_command(exe, as) ==
    IF exe \notin {"sh", "bash"} THEN TRUE
    ELSE IF as = << >> THEN FALSE
    ELSE IF "-c" \in Range(as) THEN FALSE
    ELSE LET nonflag == { k \in DOMAIN as : ~StartsWith(as[k], "-") }
         IN  IF nonflag = {} THEN FALSE
             ELSE LET script_path == as[MinOf(nonflag)]
                  IN  script_path # "" /\ EndsWith(script_path, ".sh")

\* the flag policy treating -e as dangerous for every executable
validate_interpreter_flags_AnyExecutable(exe, as) ==
    IF exe \notin DOMAIN DANGEROUS_INTERPRETER_FLAGS THEN "-e" \notin Range(as)
    ELSE \A k \in DOMAIN DANGEROUS_INTERPRETER_FLAGS[exe] :
             DANGEROUS_INTERPRETER_FLAGS[exe][k] \notin Range(as)

\* the flag policy looking only at the first flag of the table entry
validate_interpreter_flags_FirstOnly(exe, as) ==
    IF exe \notin DOMAIN DANGEROUS_INTERPRETER_FLAGS THEN TRUE
    ELSE DANGEROUS_INTERPRETER_FLAGS[exe][1] \notin Range(as)

validate_interpreter_flags(exe, as) ==
    IF exe \notin DOMAIN DANGEROUS_INTERPRETER_FLAGS THEN TRUE
    ELSE \A flag \in Range(DANGEROUS_INTERPRETER_FLAGS[exe]) : flag \notin Range(as)

\* the module policy letting a trailing -m through
validate_python_module_TrailingOk(as) ==
    IF "-m" \notin Range(as) THEN TRUE
    ELSE LET m_index == MinOf({ k \in DOMAIN as : as[k] = "-m" })
         IN  IF m_index + 1 <= Len(as)
             THEN as[m_index + 1] \in ALLOWED_PYTHON_MODULES
             ELSE TRUE

validate_python_module(as) ==
    IF "-m" \notin Range(as) THEN TRUE
    ELSE LET m_index == MinOf({ k \in DOMAIN as : as[k] = "-m" })
         IN  IF m_index + 1 <= Len(as)
             THEN as[m_index + 1] \in ALLOWED_PYTHON_MODULES
             ELSE FALSE

validate_redirect(redirect_path) ==
    /\ ~StartsWith(redirect_path, "/")
    /\ ~Contains(redirect_path, "..")
    /\ ~StartsWith(redirect_path, "~")

\* re.findall of (\d*)op\s*([^\s&|;]+), op being ">" or ">>": the second
\* group of each match, in order
RECURSIVE RedirectTargets(_, _)
RedirectTargets(s, op) ==
    LET TargetOf(g) == LET w == RunEnd(s, g + Len(op), Whitespace)
                       IN  SubSeq(s, w + 1, TargetEnd(s, w + 1))
        gs == { g \in 1..Len(s) : StartsAt(s, g, op) /\ TargetOf(g) # "" }
    IN  IF gs = {} THEN << >>
        ELSE LET g == MinOf(gs)
                 w == RunEnd(s, g + Len(op), Whitespace)
             IN  <<TargetOf(g)>>
                   \o RedirectTargets(SubSeq(s, TargetEnd(s, w + 1) + 1, Len(s)), op)

extract_redirects(segment) ==
    LET NotFd(redirect_path) == ~StartsWith(redirect_path, "&")
    IN  SelectSeq(RedirectTargets(segment, ">"), NotFd)
          \o SelectSeq(RedirectTargets(segment, ">>"), NotFd)

(***************************************************************************)
(* validate_command                                                        *)
(***************************************************************************)
NoError == [kind |-> "None", item |-> "", count |-> 0]

\* a raised CommandValidationError: its kind, the item its message names,
\* and the number its message reports (0 when it reports none)
Err(k, it, n) == [kind |-> k, item |-> it, count |-> n]

\* ', '.join(items)
RECURSIVE Join(_, _)
Join(sep, items) ==
    IF items = << >> THEN ""
    ELSE IF Len(items) = 1 THEN items[1]
    ELSE items[1] \o sep \o Join(sep, Tail(items))

\* str() of a list of str, as an f-string prints it
ListRepr(items) ==
    "[" \o Join(", ", [k \in DOMAIN items |-> "'" \o items[k] \o "'"]) \o "]"

\* ALLOWED_PYTHON_MODULES in the order of the list
PYTHON_MODULES_IN_ORDER ==
    << "pytest", "unittest", "coverage", "pip", "venv", "virtualenv",
       "black", "autopep8", "yapf", "isort", "ruff", "flake8", "pylint",
       "mypy", "tox", "nose2", "poetry", "pipenv" >>

\* one text for every raise, naming the label and nothing else
Message_Generic(label, e, cmd, segment) ==
    "Error: " \o label \o " failed security validation."

\* the f-string of each raise: label is var_name, cmd the folded command,
\* segment the segment the loop is at
Message(label, e, cmd, segment) ==
    "Error: " \o label \o
    CASE e.kind = "EmptyCommand" ->
           " is empty or contains only whitespace.\n"
           \o "Please provide a valid build or format command."
      [] e.kind = "TooLong" ->
           " exceeds maximum length of " \o ToString(MAX_COMMAND_LENGTH)
           \o " characters.\n"
           \o "Command length: " \o ToString(e.count) \o "\n"
           \o "Please simplify your command or split into multiple steps."
      [] e.kind = "UnsafeNewline" ->
           " contains unescaped newline characters.\n"
           \o "Newlines can be used for command injection.\n"
           \o "Use escaped newlines (\\) for line continuations or && for chaining."
      [] e.kind = "DangerousPattern" ->
           " contains dangerous pattern: " \o e.item \o "\n"
           \o "Command: " \o cmd \o "\n"
           \o "Security validation failed. Please remove unsafe shell operations."
      [] e.kind = "TooManySegments" ->
           " exceeds maximum complexity of " \o ToString(MAX_SEGMENTS)
           \o " chained commands.\n"
           \o "Command has " \o ToString(e.count) \o " segments.\n"
           \o "Please simplify your command or split into multiple steps."
      [] e.kind = "DisallowedOperator" ->
           " uses disallowed operator: " \o e.item \o "\n"
           \o "Allowed operators: " \o Join(", ", ALLOWED_OPERATORS) \o "\n"
           \o "Command: " \o cmd
      [] e.kind = "DisallowedExecutable" ->
           " uses disallowed command: " \o e.item \o "\n"
           \o "Command: " \o cmd \o "\n"
           \o "See documentation for allowed build and format commands."
      [] e.kind = "ImproperShellUsage" ->
           " uses shell command incorrectly: " \o segment \o "\n"
           \o "Shell commands (sh/bash) can only execute .sh files.\n"
           \o "Blocked: sh -c, bash -c\n"
           \o "Allowed: sh ./build.sh"
      [] e.kind = "DangerousInterpreterFlag" ->
           " uses dangerous interpreter flag: " \o e.item \o " with "
           \o ListRepr(IF e.item \in DOMAIN DANGEROUS_INTERPRETER_FLAGS
                       THEN DANGEROUS_INTERPRETER_FLAGS[e.item]
                       ELSE << >>) \o "\n"
           \o "Blocked flags allow arbitrary code execution.\n"
           \o "Command segment: " \o segment \o "\n"
           \o "Use script files instead of inline code execution."
      [] e.kind = "DisallowedPythonModule" ->
           " uses disallowed Python module with -m flag.\n"
           \o "Command segment: " \o segment \o "\n"
           \o "Allowed modules: " \o Join(", ", PYTHON_MODULES_IN_ORDER) \o "\n"
           \o "For other modules, execute them directly if they provide CLI tools."
      [] e.kind = "UnsafeRedirect" ->
           " contains unsafe file redirect: " \o e.item \o "\n"
           \o "Redirects must be to relative paths without '..' traversal.\n"
           \o "Command: " \o cmd

\* not command or not command.strip()
IsEmptyCommand(cmd) == cmd = "" \/ IsBlank(cmd)

\* the length test with a lower limit of four characters next to the upper
ExceedsLength_OrShort(cmd) == Len(cmd) > MAX_COMMAND_LENGTH \/ Len(cmd) < 4

\* the length test applied to the build command only
ExceedsLength_BuildOnly(cmd) ==
    Len(cmd) > MAX_COMMAND_LENGTH /\ var_name = "BUILD_COMMAND"

\* the length test with >= in place of >
ExceedsLength_AtLeast(cmd) == Len(cmd) >= MAX_COMMAND_LENGTH

\* len(command) > MAX_COMMAND_LENGTH
ExceedsLength(cmd) == Len(cmd) > MAX_COMMAND_LENGTH

\* the raw-newline block: '\n' in command or '\r' in command, and an
\* unescaped one among them
HasRawNewline(cmd) ==
    /\ \E i \in 1..Len(cmd) : At(cmd, i) \in {"\n", "\r"}
    /\ HasUnescapedNewline(cmd)

\* the segment-count test with >= in place of >
ExceedsSegments_AtLeast(segs) == Len(segs) >= MAX_SEGMENTS

\* len(segments) > MAX_SEGMENTS
ExceedsSegments(segs) == Len(segs) > MAX_SEGMENTS

\* the operator check with the pipe taken off the allowed operators
IsDisallowedOperator_NoPipe(operator) ==
    operator # "" /\ operator \notin (Range(ALLOWED_OPERATORS) \ {"|"})

\* operator and operator not in ALLOWED_OPERATORS
IsDisallowedOperator(operator) ==
    operator # "" /\ operator \notin Range(ALLOWED_OPERATORS)

\* the allowlist consulted on the first call only
IsAllowedCommand_FirstCallOnly(exe) == exe \in ALLOWED_COMMANDS \/ calls > 1

\* the allowlist with "rm" added to it
IsAllowedCommand_WithRm(exe) == exe \in ALLOWED_COMMANDS \cup {"rm"}

\* executable in ALLOWED_COMMANDS
IsAllowedCommand(exe) == exe \in ALLOWED_COMMANDS

\* executable in ['python', 'python3']
IsPython(exe) == exe \in {"python", "python3"}

\* the pre-checks with the dangerous-pattern scan left out
PreCheckError_NoScan(cmd) ==
    IF IsEmptyCommand(cmd) THEN Err("EmptyCommand", "", 0)
    ELSE IF ExceedsLength(cmd) THEN Err("TooLong", "", Len(cmd))
    ELSE IF HasRawNewline(cmd) THEN Err("UnsafeNewline", "", 0)
    ELSE NoError

\* the pre-checks with the length test ahead of the emptiness test
PreCheckError_LengthFirst(cmd) ==
    IF ExceedsLength(cmd) THEN Err("TooLong", "", Len(cmd))
    ELSE IF IsEmptyCommand(cmd) THEN Err("EmptyCommand", "", 0)
    ELSE IF HasRawNewline(cmd) THEN Err("UnsafeNewline", "", 0)
    ELSE LET p == find_dangerous_pattern(FoldContinuations(cmd))
         IN  IF p # 0 THEN Err("DangerousPattern", BLOCKED_PATTERN_STRINGS[p], 0)
             ELSE NoError

\* the checks of validate_command up to the dangerous-pattern scan
PreCheckError(cmd) ==
    IF IsEmptyCommand(cmd) THEN Err("EmptyCommand", "", 0)
    ELSE IF ExceedsLength(cmd) THEN Err("TooLong", "", Len(cmd))
    ELSE IF HasRawNewline(cmd) THEN Err("UnsafeNewline", "", 0)
    ELSE LET p == find_dangerous_pattern(FoldContinuations(cmd))
         IN  IF p # 0 THEN Err("DangerousPattern", BLOCKED_PATTERN_STRINGS[p], 0)
             ELSE NoError

\* the first unsafe redirect of the segment, as the for loop finds it
RedirectError(segment) ==
    LET redirects == extract_redirects(segment)
        bad       == { k \in DOMAIN redirects : ~validate_redirect(redirects[k]) }
    IN  IF bad = {} THEN NoError
        ELSE Err("UnsafeRedirect", redirects[MinOf(bad)], 0)

\* the per-segment checks with the Python module check moved ahead of the
\* interpreter-flag check
SegmentPolicyError_ModuleFirst(segment, exe, as) ==
    IF ~IsAllowedCommand(exe) THEN Err("DisallowedExecutable", exe, 0)
    ELSE IF ~validate_shell_command(exe, as) THEN Err("ImproperShellUsage", segment, 0)
    ELSE IF IsPython(exe) /\ ~validate_python_module(as)
         THEN Err("DisallowedPythonModule", segment, 0)
    ELSE IF ~validate_interpreter_flags(exe, as)
         THEN Err("DangerousInterpreterFlag", exe, 0)
    ELSE RedirectError(segment)

\* the checks of one loop iteration after the parse, for a segment whose
\* executable is not empty
SegmentPolicyError(segment, exe, as) ==
    IF ~IsAllowedCommand(exe) THEN Err("DisallowedExecutable", exe, 0)
    ELSE IF ~validate_shell_command(exe, as) THEN Err("ImproperShellUsage", segment, 0)
    ELSE IF ~validate_interpreter_flags(exe, as)
         THEN Err("DangerousInterpreterFlag", exe, 0)
    ELSE IF IsPython(exe) /\ ~validate_python_module(as)
         THEN Err("DisallowedPythonModule", segment, 0)
    ELSE RedirectError(segment)

\* the for loop of validate_command from segment k on: the first error it
\* raises, NoError when it runs to its end
RECURSIVE SegmentsError(_, _)
SegmentsError(segs, k) ==
    IF k > Len(segs) THEN NoError
    ELSE LET segment  == segs[k][1]
             operator == segs[k][2]
             parsed   == parse_command_segment(segment)
         IN  IF IsDisallowedOperator(operator)
             THEN Err("DisallowedOperator", operator, 0)
             ELSE IF parsed.executable = "" THEN SegmentsError(segs, k + 1)
             ELSE LET e == SegmentPolicyError(segment, parsed.executable, parsed.args)
                  IN  IF e # NoError THEN e ELSE SegmentsError(segs, k + 1)

\* validate_command as a function of the command: the error it raises,
\* NoError when it returns
validate_command(cmd) ==
    LET e == PreCheckError(cmd)
    IN  IF e # NoError THEN e
        ELSE LET segs == split_command_chain(FoldContinuations(cmd))
             IN  IF ExceedsSegments(segs) THEN Err("TooManySegments", "", Len(segs))
                 ELSE SegmentsError(segs, 1)

(***************************************************************************)
(* Input commands                                                          *)
(***************************************************************************)
\* the longest command of a family, in atoms
MaxAtoms == 3

RECURSIVE Concat(_)
Concat(ws) == IF ws = << >> THEN "" ELSE Head(ws) \o Concat(Tail(ws))

\* s repeated n times
RECURSIVE Rep(_, _)
Rep(s, n) ==
    IF n <= 0 THEN ""
    ELSE IF n % 2 = 0 THEN LET h == Rep(s, n \div 2) IN h \o h
    ELSE s \o Rep(s, n - 1)

\* every command made of at most MaxAtoms atoms of the family
CommandsOf(atoms) ==
    { Concat(ws) : ws \in UNION { [1..k -> atoms] : k \in 0..MaxAtoms } }

Families ==
    { {"npm", "rm", " ", " test", "&&", ";", "|", "''"},
      {"echo ", "'a b'", "\"", "'", "\\", "rm", "x", ";"},
      {"echo ", "$(", Backquote, "${", "eval ", "exec ", "xeval ", "x"},
      {"rm", " -rf", "curl ", "wget", "|", " sh", "bash", ";"},
      {"echo ", "&", "<", "(", ">", "1", "/dev/", " "},
      {"npm ", "> ", ">", "2>", "/etc", "..", "~x", "out", ";", "&1"},
      {"sh ", "bash ", "-c ", "-x ", "-ec ", "x.sh", "x", " ", "&&", "''", "'"},
      {"node ", "python ", "python3 ", "ruby ", "perl ", "-e ", "--eval", "-c ", "x"},
      {"python ", "python3 ", "-m ", "-m", "pytest", "os", "-c ", " x"},
      {" ", "\n", "\r", "\\", "npm", "\t", ";", "$("},
      {"\\\n", "\\\r", " ", "rm", "-rf", ";", "&", "|", "sh", "npm"},
      {"mvn", "make", " clean", " -e", "\t-c", " a\\", "&&", " || ", ";", "|"},
      {"node ", "python ", "npm ", "-e ", "-m ", "'", ">/etc", ">out"} }

\* commands at and just above MAX_COMMAND_LENGTH: a prefix padded with blanks
LongCommands ==
    { pre \o Rep(" ", n - Len(pre)) :
        pre \in {"", "\n", "npm", "npm\n", "$(", "x", "npm\\\n"},
        n \in {MAX_COMMAND_LENGTH, MAX_COMMAND_LENGTH + 1} }

\* chains at and around MAX_SEGMENTS: a unit repeated, then a tail
ChainCommands ==
    { Rep(u, n) \o t :
        u \in {"uv;", "uv||", ";uv;"},
        n \in {MAX_SEGMENTS - 1, MAX_SEGMENTS, MAX_SEGMENTS + 1},
        t \in {"", "uv", "$("} }

\* commands with one redirect clause after the arguments
RedirectExamples ==
    { "npm test > out.txt", "npm test 2> out.txt", "npm test >> out.txt",
      "npm test >>out.txt", "sh >> x.sh" }

Inputs ==
    UNION { CommandsOf(f) : f \in Families }
      \cup LongCommands \cup ChainCommands \cup RedirectExamples

(***************************************************************************)
(* The state machine of one validate_command call                          *)
(***************************************************************************)
\* the label of the two configuration commands
LABELS == {"BUILD_COMMAND", "FORMATTING_COMMAND"}

\* no finished call yet
NoHistory == [c \in {} |-> NoError]

\* the locals of validate_command at its entry
FreshCall ==
    /\ pc = "Start"
    /\ normalized = ""
    /\ segments = << >>
    /\ idx = 0
    /\ executable = ""
    /\ args = << >>
    /\ error = NoError
    /\ message = ""

\* get_config has not been called
NoSingleton ==
    /\ environ = [BASE_BRANCH |-> <<"main">>, USE_CONTRAST_LLM |-> << >>]
    /\ config_instance = << >>
    /\ built = {}
    /\ last_returned = << >>
    /\ last_call = "none"
    /\ ops = 0

\* no trust gate around the call
NoGate ==
    /\ source = ""
    /\ given = << >>
    /\ gate = "Off"
    /\ config_error = ""

\* one direct call validate_command("BUILD_COMMAND", command)
Init ==
    /\ command \in Inputs
    /\ var_name = "BUILD_COMMAND"
    /\ FreshCall
    /\ NoGate
    /\ NoSingleton
    /\ calls = 1
    /\ history = NoHistory

\* raise CommandValidationError(f"...")
Reject(e, cmd, segment) ==
    /\ pc' = "Rejected"
    /\ error' = e
    /\ message' = Message(var_name, e, cmd, segment)

\* emptiness, length, raw newlines, continuation folding, dangerous patterns
PreCheck ==
    /\ pc = "Start"
    /\ LET e == PreCheckError(command)
       IN  IF e # NoError
           THEN Reject(e, FoldContinuations(command), "") /\ UNCHANGED normalized
           ELSE /\ pc' = "PreChecked"
                /\ normalized' = FoldContinuations(command)
                /\ UNCHANGED <<error, message>>
    /\ UNCHANGED <<command, segments, idx, executable, args>>
    /\ UNCHANGED callerVars

\* split_command_chain and the complexity limit
SplitChain ==
    /\ pc = "PreChecked"
    /\ LET segs == split_command_chain(normalized)
       IN  IF ExceedsSegments(segs)
           THEN Reject(Err("TooManySegments", "", Len(segs)), normalized, "")
                  /\ UNCHANGED <<segments, idx>>
           ELSE /\ pc' = "Split"
                /\ segments' = segs
                /\ idx' = 1
                /\ UNCHANGED <<error, message>>
    /\ UNCHANGED <<command, normalized, executable, args>>
    /\ UNCHANGED callerVars

\* the head of one loop iteration with no fallback in the parser: the
\* ValueError of the lexer leaves validate_command as it is
ParseSegment_NoFallback ==
    /\ pc \in {"Split", "PolicyApproved"}
    /\ idx <= Len(segments)
    /\ LET segment  == segments[idx][1]
           operator == segments[idx][2]
           parsed   == parse_command_segment(segment)
       IN  IF IsDisallowedOperator(operator)
           THEN Reject(Err("DisallowedOperator", operator, 0), normalized, segment)
                  /\ UNCHANGED <<idx, executable, args>>
           ELSE IF ~ShlexSplit(Strip(StripRedirects(Strip(segment)))).ok
           THEN /\ pc' = "Rejected"
                /\ error' = Err("ValueError", "", 0)
                /\ message' = "No closing quotation"
                /\ UNCHANGED <<idx, executable, args>>
           ELSE IF parsed.executable = ""
           THEN /\ pc' = "PolicyApproved"
                /\ idx' = idx + 1
                /\ executable' = ""
                /\ args' = << >>
                /\ UNCHANGED <<error, message>>
           ELSE /\ pc' = "Parsed"
                /\ executable' = parsed.executable
                /\ args' = parsed.args
                /\ UNCHANGED <<idx, error, message>>
    /\ UNCHANGED <<command, normalized, segments>>
    /\ UNCHANGED callerVars

\* the head of one loop iteration: the operator check and the parse; a
\* segment with an empty executable is skipped
ParseSegment ==
    /\ pc \in {"Split", "PolicyApproved"}
    /\ idx <= Len(segments)
    /\ LET segment  == segments[idx][1]
           operator == segments[idx][2]
           parsed   == parse_command_segment(segment)
       IN  IF IsDisallowedOperator(operator)
           THEN Reject(Err("DisallowedOperator", operator, 0), normalized, segment)
                  /\ UNCHANGED <<idx, executable, args>>
           ELSE IF parsed.executable = ""
           THEN /\ pc' = "PolicyApproved"
                /\ idx' = idx + 1
                /\ executable' = ""
                /\ args' = << >>
                /\ UNCHANGED <<error, message>>
           ELSE /\ pc' = "Parsed"
                /\ executable' = parsed.executable
                /\ args' = parsed.args
                /\ UNCHANGED <<idx, error, message>>
    /\ UNCHANGED <<command, normalized, segments>>
    /\ UNCHANGED callerVars

\* the rest of the loop iteration: allowlist, shell, interpreter flags,
\* Python module, redirects
CheckPolicies ==
    /\ pc = "Parsed"
    /\ LET e == SegmentPolicyError(segments[idx][1], executable, args)
       IN  IF e # NoError
           THEN Reject(e, normalized, segments[idx][1]) /\ UNCHANGED idx
           ELSE pc' = "PolicyApproved" /\ idx' = idx + 1 /\ UNCHANGED <<error, message>>
    /\ UNCHANGED <<command, normalized, segments, executable, args>>
    /\ UNCHANGED callerVars

\* the loop is over: validate_command returns
Approve ==
    /\ pc \in {"Split", "PolicyApproved"}
    /\ idx > Len(segments)
    /\ pc' = "Approved"
    /\ UNCHANGED <<command, normalized, segments, idx, executable, args, error, message>>
    /\ UNCHANGED callerVars

Next == PreCheck \/ SplitChain \/ ParseSegment \/ CheckPolicies \/ Approve

Spec == Init /\ [][Next]_vars

(***************************************************************************)
(* One direct call under either label                                      *)
(***************************************************************************)
LabelsInit ==
    /\ command \in Inputs
    /\ var_name \in LABELS
    /\ FreshCall
    /\ NoGate
    /\ NoSingleton
    /\ calls = 1
    /\ history = NoHistory

LabelsSpec == LabelsInit /\ [][Next]_vars

(***************************************************************************)
(* A caller that makes several validate_command calls in a row             *)
(***************************************************************************)
\* the most calls the caller makes
MaxCalls == 3

\* commands handed to the trust gate: empty, accepted, and rejected in each
\* way validate_command rejects
SampleCommands ==
    { "", " ", "npm test", "npm install && npm test", "python -m pytest",
      "python -m os", "echo $(id)", "rm -rf /", "npm\ntest", "npm \\\n test",
      "ls", "sh -c x", "sh build.sh", "node -e x", "npm test > /etc/passwd",
      "npm test > out.txt", "> /etc/passwd",
      Rep("uv;", MAX_SEGMENTS + 1),
      "npm" \o Rep(" ", MAX_COMMAND_LENGTH - 2) }

\* the commands the repeated caller draws from: commands that are accepted
\* and commands rejected at each stage of validate_command
CallInputs ==
    { " ", "npm" \o Rep(" ", MAX_COMMAND_LENGTH - 2), "npm\ntest", "echo $(id)",
      "ls", "sh -c x", "node -e x", "python -m os", "npm test > /etc/passwd",
      "npm install && npm test", "npm \\\n test", "python -m pytest" }

\* how the call in progress ended
Outcome == [pc |-> pc, error |-> error, var_name |-> var_name, message |-> message]

CallsInit ==
    /\ command \in CallInputs
    /\ var_name \in LABELS
    /\ FreshCall
    /\ NoGate
    /\ NoSingleton
    /\ calls = 1
    /\ history = NoHistory

\* the call is over and the caller makes the next one: fresh locals, any
\* command, any label
NewCall ==
    /\ pc \in {"Approved", "Rejected"}
    /\ gate = "Off"
    /\ calls < MaxCalls
    /\ history' = IF command \in DOMAIN history THEN history
                  ELSE (command :> Outcome) @@ history
    /\ calls' = calls + 1
    /\ command' \in CallInputs
    /\ var_name' \in LABELS
    /\ pc' = "Start"
    /\ normalized' = ""
    /\ segments' = << >>
    /\ idx' = 0
    /\ executable' = ""
    /\ args' = << >>
    /\ error' = NoError
    /\ message' = ""
    /\ UNCHANGED <<source, given, gate, config_error, singletonVars>>

CallsNext ==
    PreCheck \/ SplitChain \/ ParseSegment \/ CheckPolicies \/ Approve \/ NewCall

CallsSpec == CallsInit /\ [][CallsNext]_vars

(***************************************************************************)
(* The trust gate Config._validate_command(var_name, command, source)      *)
(***************************************************************************)
\* source values: the trusted one, the one the docstring names for AI
\* output, and two that are neither
SOURCES == {"config", "ai_detected", "Config", ""}

\* the Optional[str] commands handed to the gate: None and strings
GivenCommands == {<< >>} \cup { <<c>> : c \in SampleCommands }

\* not command, with only None counted as absent
IsFalsy_NoneOnly(g) == g = << >>

\* not command
IsFalsy(g) == IF g = << >> THEN TRUE ELSE g[1] = ""

\* source == "config", with the case of the letters ignored
IsTrusted_AnyCase(src) == src \in {"config", "Config"}

\* source == "config"
IsTrusted(src) == src = "config"

ConfigInit ==
    /\ var_name \in LABELS
    /\ given \in GivenCommands
    /\ source \in SOURCES
    /\ gate = "Entered"
    /\ config_error = ""
    /\ command = ""
    /\ pc = "Idle"
    /\ normalized = ""
    /\ segments = << >>
    /\ idx = 0
    /\ executable = ""
    /\ args = << >>
    /\ error = NoError
    /\ message = ""
    /\ calls = 0
    /\ history = NoHistory
    /\ NoSingleton

\* if not command: return
ReturnEmpty ==
    /\ gate = "Entered"
    /\ IsFalsy(given)
    /\ gate' = "Returned"
    /\ UNCHANGED <<command, pc, normalized, segments, idx, executable, args, error,
                   message, var_name, source, given, config_error, calls, history,
                   singletonVars>>

\* if source == "config": return
ReturnTrusted ==
    /\ gate = "Entered"
    /\ ~IsFalsy(given)
    /\ IsTrusted(source)
    /\ gate' = "Returned"
    /\ UNCHANGED <<command, pc, normalized, segments, idx, executable, args, error,
                   message, var_name, source, given, config_error, calls, history,
                   singletonVars>>

\* try: validate_command(var_name, command)
CallValidator ==
    /\ gate = "Entered"
    /\ ~IsFalsy(given)
    /\ ~IsTrusted(source)
    /\ gate' = "Validating"
    /\ command' = given[1]
    /\ pc' = "Start"
    /\ calls' = calls + 1
    /\ UNCHANGED <<normalized, segments, idx, executable, args, error,
                   message, var_name, source, given, config_error, history,
                   singletonVars>>

\* validate_command returned: the gate returns
ReturnValidated ==
    /\ gate = "Validating"
    /\ pc = "Approved"
    /\ gate' = "Returned"
    /\ UNCHANGED <<command, pc, normalized, segments, idx, executable, args, error,
                   message, var_name, source, given, config_error, calls, history,
                   singletonVars>>

\* except CommandValidationError as e: raise ConfigurationError(str(e))
RaiseConfigurationError ==
    /\ gate = "Validating"
    /\ pc = "Rejected"
    /\ gate' = "Raised"
    /\ config_error' = message
    /\ UNCHANGED <<command, pc, normalized, segments, idx, executable, args, error,
                   message, var_name, source, given, calls, history,
                   singletonVars>>

ConfigNext ==
    \/ ReturnEmpty \/ ReturnTrusted \/ CallValidator
    \/ PreCheck \/ SplitChain \/ ParseSegment \/ CheckPolicies \/ Approve
    \/ ReturnValidated \/ RaiseConfigurationError

ConfigSpec == ConfigInit /\ [][ConfigNext]_vars

(***************************************************************************)
(* The Config singleton: get_config and reset_config                       *)
(***************************************************************************)
\* the most calls and environment changes in one run
MaxOps == 5

\* the environments: the two variables of os.environ the model follows,
\* each unset, empty or set; the rest of the environment is complete
Environments ==
    [ BASE_BRANCH      : { << >>, <<"">>, <<"main">> },
      USE_CONTRAST_LLM : { << >>, <<"true">>, <<"False">>, <<"TRUE">> } ]

UpperCase == "ABCDEFGHIJKLMNOPQRSTUVWXYZ"

LowerCase == "abcdefghijklmnopqrstuvwxyz"

\* str.lower()
Lower(s) ==
    Concat([ i \in 1..Len(s) |->
               LET ks == { k \in 1..Len(UpperCase) : At(UpperCase, k) = At(s, i) }
               IN  IF ks = {} THEN At(s, i) ELSE At(LowerCase, MinOf(ks)) ])

\* Config._get_env_var: ok is FALSE where it raises ConfigurationError
get_env_var(env, name, required, default) ==
    LET value == env[name]
    IN  IF required /\ IsFalsy(value) THEN [ok |-> FALSE, value |-> ""]
        ELSE [ok |-> TRUE, value |-> IF ~IsFalsy(value) THEN value[1] ELSE default]

\* Config._get_bool_env
get_bool_env(env, name, default) ==
    Lower(get_env_var(env, name, FALSE, IF default THEN "True" ELSE "False").value) = "true"

\* Config(testing=testing), as object number id: ok is FALSE where the
\* constructor raises ConfigurationError
NewConfig(env, testing, id) ==
    LET base == IF testing /\ env.BASE_BRANCH = << >>
                THEN [ok |-> TRUE, value |-> "main"]
                ELSE get_env_var(env, "BASE_BRANCH", TRUE, "")
    IN  [ ok     |-> base.ok,
          config |-> [ id               |-> id,
                       testing          |-> testing,
                       BASE_BRANCH      |-> base.value,
                       USE_CONTRAST_LLM |-> get_bool_env(env, "USE_CONTRAST_LLM", TRUE) ] ]

\* nothing of validate_command or of the trust gate is running
ValidatorIdle ==
    /\ command = ""
    /\ pc = "Idle"
    /\ normalized = ""
    /\ segments = << >>
    /\ idx = 0
    /\ executable = ""
    /\ args = << >>
    /\ error = NoError
    /\ message = ""
    /\ var_name = "BUILD_COMMAND"
    /\ calls = 0
    /\ history = NoHistory
    /\ NoGate

\* the module is imported: _config_instance = None
SingletonInit ==
    /\ ValidatorIdle
    /\ environ \in Environments
    /\ config_instance = << >>
    /\ built = {}
    /\ last_returned = << >>
    /\ last_call = "none"
    /\ ops = 0

validatorVars ==
    <<command, pc, normalized, segments, idx, executable, args, error, message,
      var_name, source, given, gate, config_error, calls, history>>

\* the program changes os.environ between two calls
SetEnviron ==
    /\ ops < MaxOps
    /\ \E env \in Environments : env # environ /\ environ' = env
    /\ last_call' = "environ"
    /\ ops' = ops + 1
    /\ UNCHANGED <<config_instance, built, last_returned>>
    /\ UNCHANGED validatorVars

\* get_config(testing): construct when _config_instance is None, exit with
\* status 1 when the constructor raises, return _config_instance
GetConfig ==
    /\ ops < MaxOps
    /\ ops' = ops + 1
    /\ \E testing \in BOOLEAN :
          IF config_instance = << >>
          THEN LET made == NewConfig(environ, testing, Cardinality(built) + 1)
               IN  IF made.ok
                   THEN /\ config_instance' = <<made.config>>
                        /\ built' = built \cup {made.config}
                        /\ last_returned' = <<made.config>>
                        /\ last_call' = "returned"
                   ELSE /\ last_call' = "exit"
                        /\ UNCHANGED <<config_instance, built, last_returned>>
          ELSE /\ last_returned' = config_instance
               /\ last_call' = "returned"
               /\ UNCHANGED <<config_instance, built>>
    /\ UNCHANGED environ
    /\ UNCHANGED validatorVars

\* reset_config() leaving the instance in place
ResetConfig_KeepsInstance ==
    /\ ops < MaxOps
    /\ ops' = ops + 1
    /\ last_returned' = << >>
    /\ last_call' = "reset"
    /\ UNCHANGED <<environ, built, config_instance>>
    /\ UNCHANGED validatorVars

\* reset_config(): _config_instance = None
ResetConfig ==
    /\ ops < MaxOps
    /\ ops' = ops + 1
    /\ config_instance' = << >>
    /\ last_returned' = << >>
    /\ last_call' = "reset"
    /\ UNCHANGED <<environ, built>>
    /\ UNCHANGED validatorVars

SingletonNext == SetEnviron \/ GetConfig \/ ResetConfig

SingletonSpec == SingletonInit /\ [][SingletonNext]_vars

(***************************************************************************)
(* Claims                                                                  *)
(***************************************************************************)
Accepted == pc = "Approved"

RejectedWith(kind) == pc = "Rejected" /\ error.kind = kind

\* the parse of segment k of the chain
ParsedAt(k) == parse_command_segment(segments[k][1])

\* C1, first half: in every accepted command, every chain segment whose
\* parse yields a non-empty executable has that executable in the allowlist.
C1_AcceptedOnlyAllowlisted ==
    Accepted =>
        \A k \in DOMAIN segments :
            ParsedAt(k).executable # "" => ParsedAt(k).executable \in ALLOWED_COMMANDS

\* C1, second half: a parsed segment (reached without an earlier violation)
\* whose first token is outside the allowlist is rejected at once with
\* DisallowedExecutable naming that token.
C1_DisallowedRejected ==
    (pc = "Parsed" /\ executable \notin ALLOWED_COMMANDS) =>
        /\ pc' = "Rejected"
        /\ error' = Err("DisallowedExecutable", executable, 0)

\* C1: nothing outside the allowlist is accepted, and the first token
\* outside it is the reported reason.
C1_Allowlist == []C1_AcceptedOnlyAllowlisted /\ [][C1_DisallowedRejected]_vars

\* C1 witness: a chain whose first segment passed and whose second segment
\* is rejected for its executable.
C1_Witness ==
    /\ RejectedWith("DisallowedExecutable")
    /\ idx = 2
    /\ ParsedAt(1).executable \in ALLOWED_COMMANDS
    /\ error.item = "rm"

\* the command holds a match of one of the dangerous patterns
HasDangerousPattern(cmd) == \E p \in 1..16 : BlockedPatternMatches(p, cmd)

\* the command has a line feed or carriage return with no backslash
\* right before it
HasBareNewline(cmd) ==
    \E i \in 1..Len(cmd) :
        At(cmd, i) \in {"\n", "\r"} /\ ~(i > 1 /\ At(cmd, i - 1) = "\\")

\* the command is empty or all whitespace
OnlyWhitespace(cmd) == \A i \in 1..Len(cmd) : At(cmd, i) \in Whitespace

\* C2 as stated: every string that holds a dangerous pattern is rejected
\* with DangerousPattern.
C2_Original ==
    (pc # "Start" /\ HasDangerousPattern(command)) => RejectedWith("DangerousPattern")

\* C2 amended: every non-blank string within the length limit, with no
\* unescaped newline, that holds a dangerous pattern is rejected with
\* DangerousPattern (wherever in the chain the pattern sits); a string that
\* fails one of the three earlier checks is rejected by that check instead.
C2_DangerousPatternRejected ==
    (pc # "Start" /\ HasDangerousPattern(command)) =>
        IF OnlyWhitespace(command) THEN RejectedWith("EmptyCommand")
        ELSE IF Len(command) > 10000 THEN RejectedWith("TooLong")
        ELSE IF HasBareNewline(command) THEN RejectedWith("UnsafeNewline")
        ELSE RejectedWith("DangerousPattern")

\* C2 witness: a command substitution in the second segment of a chain is
\* what the command is rejected for.
C2_Witness ==
    /\ RejectedWith("DangerousPattern")
    /\ command = "npm;$("
    /\ error.item = BLOCKED_PATTERN_STRINGS[1]

\* the unsafe redirect targets the redirect policy names
UnsafeTarget(path) ==
    StartsWith(path, "/") \/ Contains(path, "..") \/ StartsWith(path, "~")

\* C3: in an accepted command no output redirect of any segment has a
\* target that begins with "/", holds "..", or begins with "~".
C3_NoUnsafeRedirectAccepted ==
    Accepted =>
        \A k \in DOMAIN segments :
            \A r \in Range(extract_redirects(segments[k][1])) : ~UnsafeTarget(r)

\* the shell-script-only conditions on an argument list: non-empty, no -c,
\* and a first argument without a leading "-" that ends in .sh
ShellArgsProper(as) ==
    /\ as # << >>
    /\ \A k \in DOMAIN as : as[k] # "-c"
    /\ \E k \in DOMAIN as :
          /\ ~StartsWith(as[k], "-")
          /\ \A j \in 1..(k - 1) : StartsWith(as[j], "-")
          /\ EndsWith(as[k], ".sh")

\* C4, accepted commands: every sh/bash segment meets the conditions.
C4_AcceptedShellProper ==
    Accepted =>
        \A k \in DOMAIN segments :
            ParsedAt(k).executable \in {"sh", "bash"} => ShellArgsProper(ParsedAt(k).args)

\* C4, rejection: a parsed sh/bash segment that breaks a condition is
\* rejected at once with ImproperShellUsage naming the segment.
C4_ImproperRejected ==
    (pc = "Parsed" /\ executable \in {"sh", "bash"} /\ ~ShellArgsProper(args)) =>
        /\ pc' = "Rejected"
        /\ error' = Err("ImproperShellUsage", segments[idx][1], 0)

\* C4: sh and bash only ever run a .sh script file.
C4_ShellScriptOnly == []C4_AcceptedShellProper /\ [][C4_ImproperRejected]_vars

\* C4 witness: sh -c with a .sh operand is rejected for the -c.
C4_Witness ==
    /\ RejectedWith("ImproperShellUsage")
    /\ executable = "sh"
    /\ args = <<"-c", "x.sh">>

\* an argument list holds a flag the claim lists for the executable
HasListedFlag(exe, as) ==
    \/ exe = "node" /\ ("-e" \in Range(as) \/ "--eval" \in Range(as))
    \/ exe \in {"python", "python3"} /\ "-c" \in Range(as)
    \/ exe \in {"ruby", "perl"} /\ "-e" \in Range(as)

\* C5, accepted commands: no segment runs an interpreter with a listed flag.
C5_AcceptedNoListedFlag ==
    Accepted =>
        \A k \in DOMAIN segments :
            ~HasListedFlag(ParsedAt(k).executable, ParsedAt(k).args)

\* C5, rejection: a parsed segment with a listed flag that passes the
\* allowlist and shell checks is rejected at once with
\* DangerousInterpreterFlag.
C5_ListedFlagRejected ==
    (/\ pc = "Parsed"
     /\ HasListedFlag(executable, args)
     /\ executable \in ALLOWED_COMMANDS) =>
        /\ pc' = "Rejected"
        /\ error' = Err("DangerousInterpreterFlag", executable, 0)

\* C5: interpreters never run inline code.
C5_InterpreterFlags == []C5_AcceptedNoListedFlag /\ [][C5_ListedFlagRejected]_vars

\* C5 witness: node --eval is rejected for the flag.
C5_Witness ==
    /\ RejectedWith("DangerousInterpreterFlag")
    /\ executable = "node"
    /\ "--eval" \in Range(args)
    /\ "-e" \notin Range(args)

\* the module condition on an argument list: no -m, or an allowed module
\* right after the first -m
ModuleAllowed(as) ==
    \/ \A k \in DOMAIN as : as[k] # "-m"
    \/ \E k \in DOMAIN as :
          /\ as[k] = "-m"
          /\ \A j \in 1..(k - 1) : as[j] # "-m"
          /\ k < Len(as)
          /\ as[k + 1] \in ALLOWED_PYTHON_MODULES

\* C6 as stated: every parsed python/python3 segment whose -m has no
\* allowed module after it is rejected with DisallowedPythonModule.
C6_Original ==
    [][(pc = "Parsed" /\ executable \in {"python", "python3"} /\ ~ModuleAllowed(args)) =>
          (pc' = "Rejected" /\ error'.kind = "DisallowedPythonModule")]_vars

\* C6, accepted commands: every python/python3 segment meets the module
\* condition.
C6_AcceptedModuleAllowed ==
    Accepted =>
        \A k \in DOMAIN segments :
            ParsedAt(k).executable \in {"python", "python3"} => ModuleAllowed(ParsedAt(k).args)

\* C6, rejection: a parsed python/python3 segment without -c whose -m has
\* no allowed module after it is rejected at once with
\* DisallowedPythonModule naming the segment.
C6_BadModuleRejected ==
    (/\ pc = "Parsed"
     /\ executable \in {"python", "python3"}
     /\ "-c" \notin Range(args)
     /\ ~ModuleAllowed(args)) =>
        /\ pc' = "Rejected"
        /\ error' = Err("DisallowedPythonModule", segments[idx][1], 0)

\* C6, passing: a parsed python/python3 segment that meets the module
\* condition is not rejected with DisallowedPythonModule.
C6_GoodModulePasses ==
    (pc = "Parsed" /\ executable \in {"python", "python3"} /\ ModuleAllowed(args)) =>
        error'.kind # "DisallowedPythonModule"

\* C6 amended: for every python/python3 segment reached without an earlier
\* violation (its arguments hold no -c), a -m with no allowed module right
\* after its first occurrence is rejected with DisallowedPythonModule, and a
\* segment without -m, or with an allowed module, passes the module check.
C6_PythonModule ==
    /\ []C6_AcceptedModuleAllowed
    /\ [][C6_BadModuleRejected]_vars
    /\ [][C6_GoodModulePasses]_vars

\* C6 witness: a trailing python -m is rejected for the missing module.
C6_Witness ==
    /\ RejectedWith("DisallowedPythonModule")
    /\ executable = "python"
    /\ args = <<"-m">>

\* C7: an empty or whitespace-only command is rejected with EmptyCommand,
\* ahead of every other check: nothing is folded or split for it, whatever
\* its length and whatever newlines it holds.
C7_EmptyFirst ==
    (pc # "Start" /\ OnlyWhitespace(command)) =>
        /\ RejectedWith("EmptyCommand")
        /\ normalized = ""
        /\ segments = << >>

\* C7 witness: a whitespace-only command over the length limit with a raw
\* line feed in it is rejected as empty.
C7_Witness ==
    /\ RejectedWith("EmptyCommand")
    /\ Len(command) > 10000
    /\ \E i \in 1..2 : At(command, i) = "\n"

\* C8: a non-blank command of raw length over 10000 is rejected with TooLong
\* with nothing folded or split, and no command of raw length at most 10000
\* is rejected with TooLong.
C8_TooLong ==
    /\ (pc # "Start" /\ ~OnlyWhitespace(command) /\ Len(command) > 10000) =>
          /\ RejectedWith("TooLong")
          /\ error.count = Len(command)
          /\ normalized = ""
          /\ segments = << >>
    /\ RejectedWith("TooLong") => Len(command) > 10000

\* C8 witness: an over-long command with a raw line feed is rejected for
\* its length.
C8_Witness ==
    /\ RejectedWith("TooLong")
    /\ Len(command) = 10001
    /\ SubSeq(command, 1, 4) = "npm\n"

\* C9: a non-blank command within the length limit with a line feed or
\* carriage return not right after a backslash is rejected with
\* UnsafeNewline, and a command whose line feeds and carriage returns all
\* follow a backslash is never rejected with UnsafeNewline.
C9_UnsafeNewline ==
    /\ (/\ pc # "Start"
        /\ ~OnlyWhitespace(command)
        /\ Len(command) <= 10000
        /\ HasBareNewline(command)) => RejectedWith("UnsafeNewline")
    /\ RejectedWith("UnsafeNewline") => HasBareNewline(command)

\* C9 witness: a bare carriage return, with no line feed in the command, is
\* rejected.
C9_Witness ==
    /\ RejectedWith("UnsafeNewline")
    /\ command = "npm\r"

\* the number of non-blank pieces between the operators of a string
SegmentCount(cmd) ==
    LET parts == ReSplit(cmd)
    IN  Cardinality({ k \in DOMAIN parts : k % 2 = 1 /\ ~OnlyWhitespace(parts[k]) })

\* C10 as stated: every command with more than 50 non-empty segments is
\* rejected with TooManySegments.
C10_Original ==
    (pc \in {"Approved", "Rejected"} /\ SegmentCount(command) > 50) =>
        RejectedWith("TooManySegments")

\* a command that passes the whole-string checks made before the split
PassesPreChecks(cmd) ==
    /\ ~OnlyWhitespace(cmd)
    /\ Len(cmd) <= 10000
    /\ ~HasBareNewline(cmd)
    /\ ~HasDangerousPattern(FoldContinuations(cmd))

\* C10 amended: a command that passes the whole-string checks and whose
\* folded form has more than 50 non-empty segments is rejected with
\* TooManySegments carrying the count, and a command with 50 or fewer
\* segments is never rejected with TooManySegments.
C10_TooManySegments ==
    /\ (/\ pc \in {"Approved", "Rejected"}
        /\ PassesPreChecks(command)
        /\ SegmentCount(FoldContinuations(command)) > 50) =>
          /\ RejectedWith("TooManySegments")
          /\ error.count = SegmentCount(FoldContinuations(command))
    /\ RejectedWith("TooManySegments") =>
          /\ SegmentCount(FoldContinuations(command)) > 50
          /\ PassesPreChecks(command)

\* C10 witness: a chain of 51 segments is rejected with the count.
C10_Witness ==
    /\ RejectedWith("TooManySegments")
    /\ error.count = 51

\* the run has ended: validate_command returned or raised
Terminal == pc \in {"Approved", "Rejected"}

\* c with each continuation (a backslash, then a whitespace run that holds a
\* line feed) replaced by one blank
RECURSIVE FoldedForm(_)
FoldedForm(c) ==
    LET isStart(i) ==
            /\ At(c, i) = "\\"
            /\ \E k \in (i + 1)..RunEnd(c, i + 1, Whitespace) : At(c, k) = "\n"
        starts == { i \in 1..Len(c) : isStart(i) }
    IN  IF starts = {} THEN c
        ELSE LET b == MinOf(starts)
             IN  SubSeq(c, 1, b - 1) \o " "
                   \o FoldedForm(SubSeq(c, RunEnd(c, b + 1, Whitespace) + 1, Len(c)))

\* the run ends as validate_command ends on the string c: accepted, or
\* rejected with the same kind, item and count
EndsAsOn(c) ==
    /\ error = validate_command(c)
    /\ pc = "Approved" <=> validate_command(c) = NoError

\* C11 as stated: a command whose line feeds and carriage returns all follow
\* a backslash ends as its folded form ends.
C11_Original ==
    (Terminal /\ ~HasBareNewline(command)) => EndsAsOn(FoldedForm(command))

\* C11 amended: a command of length at most 10000 whose line feeds and
\* carriage returns all follow a backslash, and whose folded form is not
\* blank, ends as its folded form ends (every run ends as the function
\* validate_command of its command says).
C11_FoldEquivalent ==
    /\ Terminal => EndsAsOn(command)
    /\ (/\ Terminal
        /\ ~HasBareNewline(command)
        /\ Len(command) <= 10000
        /\ ~OnlyWhitespace(FoldedForm(command))) => EndsAsOn(FoldedForm(command))

\* C11 witness: two words joined by a continuation are accepted as the two
\* words joined by a blank are.
C11_Witness ==
    /\ Accepted
    /\ command = "npm\\\nnpm"
    /\ normalized = "npm npm"
    /\ validate_command("npm npm") = NoError

AfterLabel(msg, label) == SubSeq(msg, Len("Error: " \o label) + 1, Len(msg))

\* C13: a call on a command under another label than the first call on it
\* ends in the same terminal state with the same error kind and item; the
\* messages, each starting with its own label, are the same after the label.
C13_LabelNoEffect ==
    (Terminal /\ command \in DOMAIN history /\ var_name # history[command].var_name) =>
        /\ pc = history[command].pc
        /\ error.kind = history[command].error.kind
        /\ error.item = history[command].error.item
        /\ pc = "Rejected" =>
              /\ StartsWith(message, "Error: " \o var_name)
              /\ StartsWith(history[command].message,
                            "Error: " \o history[command].var_name)
              /\ AfterLabel(message, var_name)
                   = AfterLabel(history[command].message, history[command].var_name)

\* C13 witness: a command rejected under one label is rejected under the
\* other, naming the same item.
C13_Witness ==
    /\ pc = "Rejected"
    /\ command \in DOMAIN history
    /\ var_name = "FORMATTING_COMMAND"
    /\ history[command].var_name = "BUILD_COMMAND"
    /\ error.kind = "UnsafeRedirect"
    /\ error.item = "/etc/passwd"

\* the five whole-string checks in their order: check n is violated by c
WholeViolated(n, c) ==
    CASE n = 1 -> OnlyWhitespace(c)
      [] n = 2 -> Len(c) > 10000
      [] n = 3 -> HasBareNewline(c)
      [] n = 4 -> HasDangerousPattern(FoldedForm(c))
      [] n = 5 -> SegmentCount(FoldedForm(c)) > 50

WholeKind ==
    << "EmptyCommand", "TooLong", "UnsafeNewline", "DangerousPattern", "TooManySegments" >>

\* the six per-segment checks in their order: check n is violated by the
\* segment seg with operator op, parsed into exe and as; the checks after
\* the operator check apply to a segment with an executable
SegmentViolated(n, seg, op, exe, as) ==
    CASE n = 1 -> op \notin {"", "&&", "||", ";", "|"}
      [] n = 2 -> exe # "" /\ exe \notin ALLOWED_COMMANDS
      [] n = 3 -> exe \in {"sh", "bash"} /\ ~ShellArgsProper(as)
      [] n = 4 -> exe # "" /\ HasListedFlag(exe, as)
      [] n = 5 -> exe \in {"python", "python3"} /\ ~ModuleAllowed(as)
      [] n = 6 -> exe # "" /\ \E r \in Range(extract_redirects(seg)) : UnsafeTarget(r)

SegmentKind ==
    << "DisallowedOperator", "DisallowedExecutable", "ImproperShellUsage",
       "DangerousInterpreterFlag", "DisallowedPythonModule", "UnsafeRedirect" >>

\* the checks segment k of the chain violates
ViolatedAt(k) ==
    { n \in 1..6 : SegmentViolated(n, segments[k][1], segments[k][2],
                                   ParsedAt(k).executable, ParsedAt(k).args) }

\* C14, the reported reason: a finished run whose command violates a
\* whole-string check is rejected for the first of them with no chain
\* built; otherwise it is rejected at the leftmost segment that violates a
\* check, for the first check that segment violates; it is approved only
\* when nothing is violated.
C14_FirstViolation ==
    Terminal =>
        LET whole == { n \in 1..5 : WholeViolated(n, command) }
        IN  IF whole # {}
            THEN RejectedWith(WholeKind[MinOf(whole)]) /\ segments = << >>
            ELSE LET bad == { k \in DOMAIN segments : ViolatedAt(k) # {} }
                 IN  IF bad = {} THEN pc = "Approved"
                     ELSE /\ idx = MinOf(bad)
                          /\ RejectedWith(SegmentKind[MinOf(ViolatedAt(idx))])

Blanks == {" ", "\t"}

\* the first blank-delimited word of a piece ("" when it has none)
FirstWord(piece) ==
    LET keep == { i \in 1..Len(piece) : At(piece, i) \notin Blanks }
    IN  IF keep = {} THEN ""
        ELSE SubSeq(piece, MinOf(keep), RunEnd(piece, MinOf(keep), Chars(piece) \ Blanks))

\* an ordinary segment: an allowlisted executable other than sh, bash, node,
\* python and python3, then arguments free of quotes, redirects and newlines
IsOrdinarySegment(piece) ==
    /\ FirstWord(piece) \in ALLOWED_COMMANDS \ {"sh", "bash", "node", "python", "python3"}
    /\ Chars(piece) \cap {"'", "\"", ">", "\n", "\r"} = {}

\* an ordinary build chain: 1 to 50 ordinary segments joined by allowed
\* operators, at most 10000 characters, no dangerous pattern in the string
IsOrdinaryChain(c) ==
    /\ Len(c) <= 10000
    /\ ~HasDangerousPattern(c)
    /\ LET parts == ReSplit(c)
       IN  /\ (Len(parts) + 1) \div 2 <= 50
           /\ \A k \in DOMAIN parts : k % 2 = 1 => IsOrdinarySegment(parts[k])

\* C15: every ordinary build chain is accepted.
C15_OrdinaryAccepted == (Terminal /\ IsOrdinaryChain(command)) => Accepted

\* C15 witness: an ordinary chain of exactly 50 segments is accepted.
C15_Witness ==
    /\ Accepted
    /\ IsOrdinaryChain(command)
    /\ Len(segments) = 50

\* the gate was handed a non-empty string
GivenNonEmpty == given # << >> /\ given # <<"">>

\* C16, trusted source: with source "config" validate_command is never
\* invoked and nothing is raised, whatever the command.
C16_TrustedSkips ==
    source = "config" => (calls = 0 /\ pc = "Idle" /\ gate \in {"Entered", "Returned"})

\* C16, other sources, the call: a non-empty command with a source other
\* than "config" is handed to validate_command as it is, under the gate's
\* label.
C16_OthersValidated ==
    (gate = "Entered" /\ GivenNonEmpty /\ source # "config") =>
        /\ gate' = "Validating"
        /\ calls' = 1
        /\ pc' = "Start"
        /\ command' = given[1]
        /\ var_name' = var_name

\* C16, other sources, the end: the gate raises ConfigurationError exactly
\* when validate_command rejects, with the validator's message, and returns
\* exactly when it accepts.
C16_RaisesWhenRejected ==
    (GivenNonEmpty /\ source # "config") =>
        /\ gate = "Raised" =>
              /\ pc = "Rejected"
              /\ validate_command(given[1]) # NoError
              /\ config_error = message
              /\ message # ""
        /\ gate = "Returned" =>
              /\ pc = "Approved"
              /\ validate_command(given[1]) = NoError
              /\ config_error = ""
        /\ (gate = "Validating" /\ Terminal) => command = given[1]

C17_EmptyNeverValidated ==
    (given = << >> \/ given = <<"">>) =>
        (calls = 0 /\ pc = "Idle" /\ gate \in {"Entered", "Returned"})

\* C17, the step: the gate returns at once for an absent or empty command.
C17_EmptyReturns ==
    (gate = "Entered" /\ (given = << >> \/ given = <<"">>)) => gate' = "Returned"

\* C17: an absent or empty command is allowed regardless of source.
C17_EmptyAllowed == []C17_EmptyNeverValidated /\ [][C17_EmptyReturns]_vars

\* C17 witness: the empty string from an untrusted source passes the gate
\* with no validate_command call.
C17_Witness ==
    /\ gate = "Returned"
    /\ given = <<"">>
    /\ source = "ai_detected"
    /\ calls = 0

\* the message names the item: it holds ": <item>" up to the end of a line
NamesItem(msg, item) == Contains(msg, ": " \o item \o "\n")

\* C18, the label: every rejection's message opens with "Error: " and the
\* caller's label.
C18_LabelEmbedded ==
    pc = "Rejected" => StartsWith(message, "Error: " \o var_name \o " ")

\* C18, the item: a DangerousPattern rejection names a blocked pattern that
\* matches the folded command, a DisallowedExecutable rejection names the
\* executable of a segment that is outside the allowlist, and an
\* UnsafeRedirect rejection names an unsafe redirect target of a segment.
C18_ItemCarried ==
    /\ RejectedWith("DangerousPattern") =>
          \E p \in DOMAIN BLOCKED_PATTERN_STRINGS :
              /\ BlockedPatternMatches(p, FoldContinuations(command))
              /\ NamesItem(message, BLOCKED_PATTERN_STRINGS[p])
    /\ RejectedWith("DisallowedExecutable") =>
          \E k \in DOMAIN segments :
              /\ ~IsAllowedCommand(ParsedAt(k).executable)
              /\ NamesItem(message, ParsedAt(k).executable)
    /\ RejectedWith("UnsafeRedirect") =>
          \E k \in DOMAIN segments :
              \E path \in Range(extract_redirects(segments[k][1])) :
                  /\ ~validate_redirect(path)
                  /\ NamesItem(message, path)

\* C18: every rejection embeds the caller's label in its message and carries
\* the offending pattern, executable or redirect target of its kind.
C18_MessageCarriesItem == C18_LabelEmbedded /\ C18_ItemCarried

\* C18 witness: a formatting command rejected for its redirect target.
C18_Witness ==
    /\ var_name = "FORMATTING_COMMAND"
    /\ command = "npm > /etc"
    /\ RejectedWith("UnsafeRedirect")
    /\ NamesItem(message, "/etc")

\* the text of a segment that is handed to the lexer
TextForParsing(seg) == Strip(StripRedirects(Strip(seg)))

\* shell-lexing the segment fails
LexFails(seg) == ~ShlexSplit(TextForParsing(seg)).ok

\* the whitespace-delimited tokens of the segment
WordsOf(seg) == SplitWhitespace(TextForParsing(seg))

\* C19, the tokens: a segment whose lexing fails is parsed into its
\* whitespace-delimited tokens.
C19_FallbackTokens ==
    (pc = "Parsed" /\ LexFails(segments[idx][1])) =>
        /\ WordsOf(segments[idx][1]) # << >>
        /\ executable = Head(WordsOf(segments[idx][1]))
        /\ args = Tail(WordsOf(segments[idx][1]))

\* C19, the checks: the tokens of a segment whose lexing fails go through
\* the allowlist, shell, interpreter-flag, Python-module and redirect checks
\* in that order; the first one violated rejects the command and the
\* segment passes only when none is.
C19_SameChecks ==
    (pc = "Parsed" /\ LexFails(segments[idx][1])) =>
        LET ws  == WordsOf(segments[idx][1])
            bad == { n \in 2..6 : SegmentViolated(n, segments[idx][1], segments[idx][2],
                                                  Head(ws), Tail(ws)) }
        IN  IF bad = {}
            THEN pc' = "PolicyApproved" /\ idx' = idx + 1
            ELSE pc' = "Rejected" /\ error'.kind = SegmentKind[MinOf(bad)]

\* C19, acceptance: no accepted command holds a segment whose lexing fails
\* and whose first whitespace-delimited token is outside the allowlist.
C19_NoAcceptance ==
    Accepted =>
        \A k \in DOMAIN segments :
            LexFails(segments[k][1]) =>
                /\ WordsOf(segments[k][1]) # << >>
                /\ Head(WordsOf(segments[k][1])) \in ALLOWED_COMMANDS

\* C19: a lexing failure is fail-closed: the whitespace-split tokens meet
\* the same checks in the same order as lexed ones.
C19_FailClosed ==
    /\ []C19_FallbackTokens
    /\ []C19_NoAcceptance
    /\ [][C19_SameChecks]_vars

\* C19 witness: an unbalanced quote after node -e is rejected for the flag
\* found among the whitespace-split tokens.
C19_Witness ==
    /\ command = "node -e '"
    /\ RejectedWith("DangerousInterpreterFlag")
    /\ LexFails(segments[idx][1])
    /\ args = <<"-e", "'">>

\* the chain the splitter makes in this state: of the command as given at
\* the start, of the folded command when the whole-string checks have
\* passed, and the chain the loop works on afterwards
ChainHere ==
    IF pc = "Start" THEN split_command_chain(command)
    ELSE IF pc = "PreChecked" THEN split_command_chain(normalized)
    ELSE segments

\* C20, the chain: every segment of a chain has text that is not empty and
\* not all whitespace, and an operator among &&, ||, ;, | or none.
C20_ChainWellFormed ==
    LET chain == ChainHere
    IN  \A k \in DOMAIN chain :
            /\ Len(chain[k]) = 2
            /\ chain[k][1] # ""
            /\ ~OnlyWhitespace(chain[k][1])
            /\ chain[k][2] \in {"&&", "||", ";", "|", ""}

\* C20, the length: a chain the per-segment checks work on has at most 50
\* segments, and a command rejected for its segment count has had no
\* segment checked.
C20_ChainBounded ==
    /\ pc \in {"Split", "Parsed", "PolicyApproved", "Approved"} =>
          Len(segments) <= 50
    /\ (pc = "Rejected" /\ error.kind \in Range(SegmentKind)) =>
          (Len(segments) <= 50 /\ idx \in DOMAIN segments)
    /\ RejectedWith("TooManySegments") =>
          (segments = << >> /\ idx = 0 /\ error.count > 50)

\* C20: the splitter's chains hold no empty segment and only allowed
\* operators, and per-segment checking sees at most 50 segments.
C20_ChainInvariants == C20_ChainWellFormed /\ C20_ChainBounded

\* C20 witness: a command that opens with an operator and leaves an empty
\* piece before every second operator is split into exactly 50 segments,
\* all of them checked.
C20_Witness ==
    /\ pc = "Approved"
    /\ Len(segments) = 50
    /\ StartsWith(command, ";uv;;")
    /\ Len(ReSplit(normalized)) > 2 * 50 + 1

\* C21: in every chain the splitter returns, the last pair has the empty
\* string as its operator, also for a command that ends with an operator.
C21_LastHasNoOperator ==
    LET chain == ChainHere
    IN  chain # << >> => chain[Len(chain)][2] = ""

\* the string the splitter is applied to in this state
ChainInput == IF pc = "Start" THEN command ELSE normalized

\* t is chunk c without its leading and trailing whitespace, and not empty
IsTrimOf(t, c) ==
    /\ t # ""
    /\ At(t, 1) \notin Whitespace
    /\ At(t, Len(t)) \notin Whitespace
    /\ \E a \in 1..Len(c) :
          /\ SubSeq(c, a, a + Len(t) - 1) = t
          /\ \A i \in 1..(a - 1) : At(c, i) \in Whitespace
          /\ \A i \in (a + Len(t))..Len(c) : At(c, i) \in Whitespace

\* parts is the input cut at its operator tokens: chunks at the odd places
\* and operators at the even ones, nothing lost, no operator left inside a
\* chunk, and || taken whole wherever two bars meet
IsCutAtOperators(parts, s) ==
    /\ Len(parts) % 2 = 1
    /\ Concat(parts) = s
    /\ \A j \in DOMAIN parts :
          IF j % 2 = 0
          THEN /\ parts[j] \in {"&&", "||", ";", "|"}
               /\ (parts[j] = "|" /\ parts[j + 1] = "" /\ j + 2 <= Len(parts))
                     => parts[j + 2] \notin {"|", "||"}
          ELSE /\ \A i \in 1..Len(parts[j]) : At(parts[j], i) \notin {";", "|"}
               /\ ~Contains(parts[j], "&&")

\* C22, the pairing: the chain lists the non-blank chunks of the input from
\* left to right, each trimmed and paired with the operator token right
\* after it in the input, or with none when nothing follows it; blank
\* chunks leave no pair.
C22_ChunksInOrder ==
    pc \in {"Start", "PreChecked", "Split"} =>
        LET chain == ChainHere
            parts == ReSplit(ChainInput)
            keep  == { i \in DOMAIN parts : i % 2 = 1 /\ ~OnlyWhitespace(parts[i]) }
            Nth(k) == CHOOSE i \in keep : Cardinality({ j \in keep : j <= i }) = k
        IN  /\ IsCutAtOperators(parts, ChainInput)
            /\ Len(chain) = Cardinality(keep)
            /\ \A k \in DOMAIN chain :
                  /\ IsTrimOf(chain[k][1], parts[Nth(k)])
                  /\ chain[k][2] = IF Nth(k) < Len(parts) THEN parts[Nth(k) + 1] ELSE ""

\* C22, no rejection: blank chunks are not counted as segments and are not
\* checked: a rejection for the segment count reports the number of
\* non-blank chunks, and a per-segment rejection is at a segment of the
\* chain.
C22_EmptyChunksHarmless ==
    /\ RejectedWith("TooManySegments") =>
          LET parts == ReSplit(normalized)
          IN  error.count =
                Cardinality({ i \in DOMAIN parts : i % 2 = 1 /\ ~OnlyWhitespace(parts[i]) })
    /\ (pc = "Rejected" /\ error.kind \in Range(SegmentKind)) =>
          (idx \in DOMAIN segments /\ ~OnlyWhitespace(segments[idx][1]))

HasOneClause(seg) ==
    LET gs == { i \in 1..Len(seg) : At(seg, i) = ">" }
    IN  /\ gs # {}
        /\ MaxOf(gs) - MinOf(gs) = Cardinality(gs) - 1
        /\ Cardinality(gs) <= 2
        /\ \A i \in 1..Len(seg) : At(seg, i) \notin {"'", "\"", "\\"}
        /\ LET w == RunEnd(seg, MaxOf(gs) + 1, Whitespace)
           IN  TargetEnd(seg, w + 1) > w

\* the words of such a segment outside its clause: the clause runs from its
\* fd digits to the end of its target
WordsOutsideClause(seg) ==
    LET gs == { i \in 1..Len(seg) : At(seg, i) = ">" }
        w  == RunEnd(seg, MaxOf(gs) + 1, Whitespace)
    IN  SplitWhitespace(SubSeq(seg, 1, DigitsStart(seg, MinOf(gs)) - 1)
                          \o SubSeq(seg, TargetEnd(seg, w + 1) + 1, Len(seg)))

\* C23: the parser removes the redirect clause (fd digits, > or >>, optional
\* whitespace, target) before it tokenizes, so the executable and the args
\* are the words outside the clause: the three named commands parse to npm
\* with args [test].
C23_RedirectsRemoved ==
    (pc = "Parsed" /\ HasOneClause(segments[idx][1])) =>
        /\ <<executable>> \o args = WordsOutsideClause(segments[idx][1])
        /\ command \in {"npm test > out.txt", "npm test 2> out.txt", "npm test >> out.txt"}
              => (executable = "npm" /\ args = <<"test">>)

\* this step is a get_config call that returns
GetConfigReturns == ops' = ops + 1 /\ last_call' = "returned"

\* the Config c shows the environment env
Reflects(c, env) ==
    /\ c.USE_CONTRAST_LLM = (env.USE_CONTRAST_LLM \in {<< >>, <<"true">>, <<"TRUE">>})
    /\ c.BASE_BRANCH = IF env.BASE_BRANCH = << >> THEN "main" ELSE env.BASE_BRANCH[1]

\* C24, same instance: a get_config that follows a get_config with no
\* reset_config between them returns the instance the earlier one returned
\* and constructs nothing, whatever the environment has become.
C24_SameUntilReset ==
    (GetConfigReturns /\ last_returned # << >>) =>
        (last_returned' = last_returned /\ built' = built)

\* C24, new instance: the first get_config to return after a reset_config,
\* or after the start, returns an instance that is none of the earlier ones
\* and shows the environment of that moment.
C24_FreshAfterReset ==
    (GetConfigReturns /\ last_returned = << >>) =>
        /\ last_returned'[1] \notin built
        /\ \A c \in built : c.id # last_returned'[1].id
        /\ built' = built \cup {last_returned'[1]}
        /\ Reflects(last_returned'[1], environ)

\* C24, the calls in between: reset_config and changes of the environment
\* return no instance and construct none.
C24_OnlyGetConstructs ==
    (ops' = ops + 1 /\ last_call' \in {"reset", "environ", "exit"}) =>
        (built' = built /\ (last_call' = "reset" => last_returned' = << >>))

C25_NoNewlineInNormalized ==
    (/\ pc \notin {"Start", "Idle"}
     /\ error.kind \notin {"EmptyCommand", "TooLong", "UnsafeNewline"}) =>
        LET scanned == IF pc = "Rejected" /\ error.kind = "DangerousPattern"
                       THEN FoldContinuations(command)
                       ELSE normalized
        IN  \A i \in 1..Len(scanned) : At(scanned, i) \notin {"\n", "\r"}

\* C26: every accepted command has a chain segment whose executable is in
\* the allowlist; a command of nothing but operators, line continuations
\* or bare redirect clauses is not accepted.
C26_AcceptedRunsSomething ==
    Accepted => \E k \in DOMAIN segments : ParsedAt(k).executable \in ALLOWED_COMMANDS

\* C27, the outcome: no run ends with DisallowedOperator, and every
\* operator of the chain the loop works on is an allowed one.
C27_OperatorsAllowed ==
    /\ error.kind # "DisallowedOperator"
    /\ \A k \in DOMAIN segments : segments[k][2] \in {"", "&&", "||", ";", "|"}

\* C27, the check: the operator check at the head of a loop iteration
\* never fails.
C27_CheckNeverFails ==
    (pc \in {"Split", "PolicyApproved"} /\ idx <= Len(segments)) =>
        ~(pc' = "Rejected" /\ error'.kind = "DisallowedOperator")

\* C27: DisallowedOperator is never the outcome of a validation.
C27_NoDisallowedOperator == []C27_OperatorsAllowed /\ [][C27_CheckNeverFails]_vars

\* C27 witness: a chain of 50 segments, each followed by ||, has gone
\* through the operator check 50 times and is accepted.
C27_Witness ==
    /\ Accepted
    /\ Len(segments) = 50
    /\ \A k \in DOMAIN segments : segments[k][2] = "||"

\* C28, the parts: every segment of the chain of an accepted command is
\* accepted when it is validated alone.
C28_PartsAccepted ==
    Accepted => \A k \in DOMAIN segments : validate_command(segments[k][1]) = NoError

\* C28, the whole: the run ends as validate_command, taken as a function of
\* the command, says.
C28_RunIsFunction ==
    Terminal => (Accepted <=> validate_command(command) = NoError)

\* C28: acceptance of a chain implies acceptance of each of its segments
\* submitted alone.
C28_ChainImpliesParts == C28_PartsAccepted /\ C28_RunIsFunction

\* C28 witness: an accepted chain of two different segments.
C28_Witness ==
    /\ Accepted
    /\ command = "mvn;make"
    /\ segments = << <<"mvn", ";">>, <<"make", "">> >>

\* the kinds of CommandValidationError
TaxonomyKinds == Range(WholeKind) \cup Range(SegmentKind)

\* how far a run has come: every step of validate_command raises it
Progress ==
    CASE pc = "Start"          -> 0
      [] pc = "PreChecked"     -> 1
      [] pc = "PolicyApproved" -> 2 * idx
      [] pc = "Split"          -> 2 * idx
      [] pc = "Parsed"         -> 2 * idx + 1
      [] OTHER                 -> 2 * MAX_SEGMENTS + 4

\* C29, the outcome: a run that has ended has returned with no error or has
\* raised a CommandValidationError of a taxonomy kind with a message; a run
\* that has not ended is at a segment of the chain or right after the last.
C29_OutcomeInTaxonomy ==
    /\ pc \in {"Start", "PreChecked", "Split", "Parsed", "PolicyApproved",
               "Approved", "Rejected"}
    /\ pc = "Rejected" => (error.kind \in TaxonomyKinds /\ message # "")
    /\ pc # "Rejected" => (error = NoError /\ message = "")
    /\ pc \in {"Split", "Parsed", "PolicyApproved"} => idx \in 1..(Len(segments) + 1)
    /\ pc = "Parsed" => (idx \in DOMAIN segments /\ executable # "")

\* C29, the end: every step brings the run closer to its end, so every run
\* ends.
C29_StepsAdvance == Progress' > Progress

\* C29, the tokenizer: a segment on which the lexer fails is parsed all the
\* same, into an executable, and handed to the checks.
C29_LexFailureAbsorbed ==
    (/\ pc \in {"Split", "PolicyApproved"}
     /\ idx <= Len(segments)
     /\ LexFails(segments[idx][1])) =>
        (pc' = "Parsed" /\ executable' # "")

\* C29: validate_command ends for every input, by returning or by raising
\* CommandValidationError, also when the lexer fails on a segment.
C29_OnlyValidationErrors ==
    /\ []C29_OutcomeInTaxonomy
    /\ [][C29_StepsAdvance]_vars
    /\ [][C29_LexFailureAbsorbed]_vars

\* C29 witness: a command that ends in a backslash, on which the lexer
\* fails, has been accepted.
C29_Witness ==
    /\ Accepted
    /\ command = "make a\\"
    /\ LexFails(segments[1][1])

\* the argument is a short-option cluster that holds the c option
HasCOption(arg) ==
    /\ StartsWith(arg, "-")
    /\ ~StartsWith(arg, "--")
    /\ \E i \in 2..Len(arg) : At(arg, i) = "c"

\* C30: in every sh or bash segment of an accepted command no short-option
\* argument holds the c option, alone or in a cluster such as -ec.
C30_NoInlineShell ==
    Accepted =>
        \A k \in DOMAIN segments :
            ParsedAt(k).executable \in {"sh", "bash"} =>
                \A a \in DOMAIN ParsedAt(k).args : ~HasCOption(ParsedAt(k).args[a])

=============================================================================
